---------------------------- MODULE Spec2Model ----------------------------
(***************************************************************************)
(* A model of part-4/app.py: a JSON REST API over one table, Book, kept by *)
(* SQLite through Flask-SQLAlchemy.                                        *)
(*                                                                         *)
(* Text (titles, isbns, query parameters) is a sequence of code points, so *)
(* that lower-casing, LIKE matching, int() parsing and ORDER BY are        *)
(* computed and not looked up.  A nullable value (a column, a JSON value,  *)
(* a query parameter) is None or Some(v).                                  *)
(*                                                                         *)
(* The storage is the SQLite file of app.py:21: a new row takes the key    *)
(* after the largest one, NOT NULL and UNIQUE are checked when a request   *)
(* commits, and a request that ends in an exception leaves the table as it *)
(* found it (its session is discarded with the request).  A scan without   *)
(* ORDER BY gives the rows by key, and rows that tie under ORDER BY stay   *)
(* in that order.                                                          *)
(*                                                                         *)
(* Requests reach the handlers parsed: a body is what request.get_json()   *)
(* returns (an object or null), page and per_page are positive when they   *)
(* are numbers.  What the framework answers before a handler runs (a body  *)
(* that is no JSON, an id that is no integer) is not modelled.             *)
(***************************************************************************)
EXTENDS Integers, Sequences, FiniteSets, TLC

VARIABLES
    books,   \* the Book table: primary key -> row
    req,     \* the request handled last
    resp,    \* its response
    pc,      \* concurrent create_book: where each worker stands in the handler
    local    \* concurrent create_book: each worker's request body and response

vars == <<books, req, resp, pc, local>>

---------------------------------------------------------------------------
(* Bounds of the model *)

\* the largest primary key the table hands out
MaxId == 3

---------------------------------------------------------------------------
(* Values *)

None == <<>>
Some(v) == <<v>>
Val(o) == o[1]

\* "Python Crash Course"
TitlePython == <<80, 121, 116, 104, 111, 110, 32, 67, 114, 97, 115, 104, 32, 67, 111, 117, 114, 115, 101>>
\* "Eric Matthes"
AuthorMatthes == <<69, 114, 105, 99, 32, 77, 97, 116, 116, 104, 101, 115>>
\* "978-1593279288"
IsbnPython == <<57, 55, 56, 45, 49, 53, 57, 51, 50, 55, 57, 50, 56, 56>>
\* "Flask Web Development"
TitleFlask == <<70, 108, 97, 115, 107, 32, 87, 101, 98, 32, 68, 101, 118, 101, 108, 111, 112, 109, 101, 110, 116>>
\* "Miguel Grinberg"
AuthorGrinberg == <<77, 105, 103, 117, 101, 108, 32, 71, 114, 105, 110, 98, 101, 114, 103>>
\* "978-1491991732"
IsbnFlask == <<57, 55, 56, 45, 49, 52, 57, 49, 57, 57, 49, 55, 51, 50>>
\* "Clean Code"
TitleClean == <<67, 108, 101, 97, 110, 32, 67, 111, 100, 101>>
\* "Robert C. Martin"
AuthorMartin == <<82, 111, 98, 101, 114, 116, 32, 67, 46, 32, 77, 97, 114, 116, 105, 110>>
\* "978-0132350884"
IsbnClean == <<57, 55, 56, 45, 48, 49, 51, 50, 51, 53, 48, 56, 56, 52>>

\* "id"
S_id == <<105, 100>>
\* "title"
S_title == <<116, 105, 116, 108, 101>>
\* "author"
S_author == <<97, 117, 116, 104, 111, 114>>
\* "year"
S_year == <<121, 101, 97, 114>>
\* "isbn"
S_isbn == <<105, 115, 98, 110>>
\* "created_at"
S_created_at == <<99, 114, 101, 97, 116, 101, 100, 95, 97, 116>>
\* "to_dict"
S_to_dict == <<116, 111, 95, 100, 105, 99, 116>>
\* "query"
S_query == <<113, 117, 101, 114, 121>>
\* "asc"
S_asc == <<97, 115, 99>>
\* "desc"
S_desc == <<100, 101, 115, 99>>

\* Python truthiness of a string-or-None: None and '' are falsy
Truthy(o) == o # None /\ Val(o) # <<>>

\* dict.get(key): None when the key is absent
DictGet(d, k) == IF k \in DOMAIN d THEN d[k] ELSE None

\* request.get_json(): JSON null, or an object (key -> value)
NullBody == [kind |-> "null"]
ObjectBody(f) == [kind |-> "object", fields |-> f]

\* `not data`: None and {} are falsy
NoData(data) == data.kind = "null" \/ DOMAIN data.fields = {}

---------------------------------------------------------------------------
(* Text *)

\* str.lower() on ASCII
LowerChar(c) == IF c \in 65..90 THEN c + 32 ELSE c
Lower(s) == [k \in 1..Len(s) |-> LowerChar(s[k])]

\* comparison of text under SQLite's BINARY collation
RECURSIVE TextLeq(_, _)
TextLeq(a, b) ==
    IF a = <<>> THEN TRUE
    ELSE IF b = <<>> THEN FALSE
    ELSE IF Head(a) # Head(b) THEN Head(a) < Head(b)
    ELSE TextLeq(Tail(a), Tail(b))

\* SQL LIKE: % matches any run of characters, _ any one character
RECURSIVE Like(_, _)
Like(s, pat) ==
    IF pat = <<>> THEN s = <<>>
    ELSE IF Head(pat) = 37
    THEN Like(s, Tail(pat)) \/ (s # <<>> /\ Like(Tail(s), pat))
    ELSE /\ s # <<>>
         /\ (Head(pat) = 95 \/ Head(pat) = Head(s))
         /\ Like(Tail(s), Tail(pat))

\* column.ilike(f'%{text}%'): lower(column) LIKE lower('%text%')
ilike(value, text) ==
    value # None /\ Like(Lower(Val(value)), Lower(<<37>> \o text \o <<37>>))

IsDigit(c) == c \in 48..57

RECURSIVE DigitsValue(_)
DigitsValue(s) ==
    IF s = <<>> THEN 0 ELSE 10 * DigitsValue(SubSeq(s, 1, Len(s) - 1)) + (s[Len(s)] - 48)

\* int(text): Some(n), or None for the ValueError of text that is no decimal
\* integer (an optional sign, then digits)
ParseInt(s) ==
    LET signed == s # <<>> /\ Head(s) \in {43, 45}
        digits == IF signed THEN Tail(s) ELSE s
    IN  IF digits = <<>> \/ \E k \in 1..Len(digits) : ~IsDigit(digits[k])
        THEN None
        ELSE Some(IF signed /\ Head(s) = 45 THEN 0 - DigitsValue(digits) ELSE DigitsValue(digits))

---------------------------------------------------------------------------
(* The Book model and its table *)

\* datetime.isoformat(): the text of a timestamp, t seconds into the day the
\* server started ("2024-01-01T00:00:0t")
isoformat(t) == <<50, 48, 50, 52, 45, 48, 49, 45, 48, 49, 84, 48, 48, 58, 48, 48, 58, 48>> \o <<48 + t>>

to_dict(book) ==
    [id         |-> book.id,
     title      |-> book.title,
     author     |-> book.author,
     year       |-> book.year,
     isbn       |-> book.isbn,
     created_at |-> IF book.created_at # None
                    THEN Some(isoformat(Val(book.created_at)))
                    ELSE None]

\* Book(...) built without isbn=data.get('isbn')
NewBook_without_isbn(id, data, now) ==
    [id         |-> id,
     title      |-> data["title"],
     author     |-> data["author"],
     year       |-> DictGet(data, "year"),
     isbn       |-> None,
     created_at |-> Some(now)]

\* Book(title=, author=, year=, isbn=) as inserted: the key is the storage's,
\* created_at the column default
NewBook(id, data, now) ==
    [id         |-> id,
     title      |-> data["title"],
     author     |-> data["author"],
     year       |-> DictGet(data, "year"),
     isbn       |-> DictGet(data, "isbn"),
     created_at |-> Some(now)]

Max(S) == CHOOSE x \in S : \A y \in S : y <= x

\* INTEGER PRIMARY KEY of SQLite: one more than the largest key in the table
NextId(bks) == IF DOMAIN bks = {} THEN 1 ELSE Max(DOMAIN bks) + 1

\* nullable=False on title and author
NotNullOk(book) == book.title # None /\ book.author # None

\* the isbn column declared without unique=True
UniqueOk_undeclared(bks, book) == TRUE

\* unique=True on isbn: no other row holds the same non-NULL isbn
UniqueOk(bks, book) ==
    \/ book.isbn = None
    \/ \A i \in DOMAIN bks : i # book.id => bks[i].isbn # book.isbn

\* a commit against a table that declares no constraint
Commit_unconstrained(bks, book) ==
    [ok |-> TRUE,
     books |-> [i \in DOMAIN bks \cup {book.id} |-> IF i = book.id THEN book ELSE bks[i]]]

\* db.session.commit() of one inserted or modified row: the table after it,
\* or an IntegrityError that leaves the table as it was
Commit(bks, book) ==
    IF NotNullOk(book) /\ UniqueOk(bks, book)
    THEN [ok |-> TRUE,
          books |-> [i \in DOMAIN bks \cup {book.id} |->
                        IF i = book.id THEN book ELSE bks[i]]]
    ELSE [ok |-> FALSE, books |-> bks]

\* Book.query.get(id)
QueryGet(bks, i) == IF i \in DOMAIN bks THEN Some(bks[i]) ELSE None

\* Book.query.filter_by(isbn=...).first()
FirstByIsbn(bks, v) ==
    LET hits == {i \in DOMAIN bks : bks[i].isbn = Some(v)}
    IN  IF hits = {} THEN None ELSE Some(bks[CHOOSE i \in hits : \A j \in hits : i <= j])

---------------------------------------------------------------------------
(* Responses *)

Json(status, body) == [status |-> status, kind |-> "json", body |-> body]
\* an exception no handler catches: the framework's Internal Server Error page
ServerError == [status |-> 500, kind |-> "html", body |-> "Internal Server Error"]

Failure(status, msg) == Json(status, [success |-> FALSE, error |-> msg])

\* what a handler did: its response and the table after it
Outcome(r, bks) == [resp |-> r, books |-> bks]

---------------------------------------------------------------------------
(* Handlers: the response and the table after the request *)

\* GET /api/books/<id>
get_book(bks, i) ==
    LET book == QueryGet(bks, i)
    IN  IF book = None
        THEN Outcome(Failure(404, "Book not found"), bks)
        ELSE Outcome(Json(200, [success |-> TRUE, book |-> to_dict(Val(book))]), bks)

\* create_book up to its existence check: the failure it answers with, or
\* None when the request goes on to insert
create_check(bks, data) ==
    IF NoData(data)
    THEN Some(Failure(400, "No data provided"))
    ELSE IF ~Truthy(DictGet(data.fields, "title")) \/ ~Truthy(DictGet(data.fields, "author"))
    THEN Some(Failure(400, "Title and author are required"))
    ELSE IF /\ Truthy(DictGet(data.fields, "isbn"))
            /\ FirstByIsbn(bks, Val(data.fields["isbn"])) # None
    THEN Some(Failure(400, "ISBN already exists"))
    ELSE None

\* create_book from db.session.add on: the insert and its commit
create_commit(bks, data, now) ==
    LET new_book == NewBook(NextId(bks), data.fields, now)
        done == Commit(bks, new_book)
    IN  IF done.ok
        THEN Outcome(Json(201, [success |-> TRUE,
                                message |-> "Book created successfully",
                                book    |-> to_dict(new_book)]),
                     done.books)
        ELSE Outcome(ServerError, bks)

\* POST /api/books
create_book(bks, data, now) ==
    LET failed == create_check(bks, data)
    IN  IF failed # None
        THEN Outcome(Val(failed), bks)
        ELSE create_commit(bks, data, now)

\* update_book assigning book.year = data.get('year') whatever the body carries
Assign_year_always(book, fields) ==
    [book EXCEPT
        !.title  = IF "title"  \in DOMAIN fields THEN fields["title"]  ELSE @,
        !.author = IF "author" \in DOMAIN fields THEN fields["author"] ELSE @,
        !.year   = DictGet(fields, "year"),
        !.isbn   = IF "isbn"   \in DOMAIN fields THEN fields["isbn"]   ELSE @]

\* the assignments of update_book: a key of the body overwrites its column
Assign(book, fields) ==
    [book EXCEPT
        !.title  = IF "title"  \in DOMAIN fields THEN fields["title"]  ELSE @,
        !.author = IF "author" \in DOMAIN fields THEN fields["author"] ELSE @,
        !.year   = IF "year"   \in DOMAIN fields THEN fields["year"]   ELSE @,
        !.isbn   = IF "isbn"   \in DOMAIN fields THEN fields["isbn"]   ELSE @]

\* PUT /api/books/<id>
update_book(bks, i, data) ==
    LET book == QueryGet(bks, i)
    IN  IF book = None
        THEN Outcome(Failure(404, "Book not found"), bks)
        ELSE IF NoData(data)
        THEN Outcome(Failure(400, "No data provided"), bks)
        ELSE LET updated == Assign(Val(book), data.fields)
                 done == Commit(bks, updated)
             IN  IF done.ok
                 THEN Outcome(Json(200, [success |-> TRUE,
                                         message |-> "Book updated successfully",
                                         book    |-> to_dict(updated)]),
                              done.books)
                 ELSE Outcome(ServerError, bks)

\* delete_book answering before db.session.delete(book) and the commit
delete_book_unsaved(bks, i) ==
    LET book == QueryGet(bks, i)
    IN  IF book = None
        THEN Outcome(Failure(404, "Book not found"), bks)
        ELSE Outcome(Json(200, [success |-> TRUE,
                                message |-> "Book deleted successfully"]),
                     bks)

\* DELETE /api/books/<id>
delete_book(bks, i) ==
    LET book == QueryGet(bks, i)
    IN  IF book = None
        THEN Outcome(Failure(404, "Book not found"), bks)
        ELSE Outcome(Json(200, [success |-> TRUE,
                                message |-> "Book deleted successfully"]),
                     [j \in DOMAIN bks \ {i} |-> bks[j]])

---------------------------------------------------------------------------
(* Listing and search *)

\* the columns of Book, by name
ColumnOf(name) ==
    CASE name = S_id -> "id"
      [] name = S_title -> "title"
      [] name = S_author -> "author"
      [] name = S_year -> "year"
      [] name = S_isbn -> "isbn"
      [] name = S_created_at -> "created_at"
      [] OTHER -> "none"

\* attributes of the class Book that are no columns: its method and its query
OtherAttributes == {S_to_dict, S_query}

\* hasattr(Book, name)
hasattr(name) == ColumnOf(name) # "none" \/ name \in OtherAttributes

\* a row's value in a column, None for NULL
ColumnValue(book, col) == IF col = "id" THEN Some(book.id) ELSE book[col]

\* the storage's order of two values of one column: NULL first, text by
\* code point, numbers by size
ValueLeq(a, b, col) ==
    IF a = None THEN TRUE
    ELSE IF b = None THEN FALSE
    ELSE IF col \in {"title", "author", "isbn"} THEN TextLeq(Val(a), Val(b))
    ELSE Val(a) <= Val(b)

\* whether row a may stand before row b under ORDER BY col ASC / DESC
Before(a, b, col, descending) ==
    IF descending
    THEN ValueLeq(ColumnValue(b, col), ColumnValue(a, col), col)
    ELSE ValueLeq(ColumnValue(a, col), ColumnValue(b, col), col)

\* one row put into an ordered sequence, behind its equals
RECURSIVE InsertOrdered(_, _, _, _)
InsertOrdered(rows, b, col, descending) ==
    IF rows = <<>> THEN <<b>>
    ELSE IF Before(rows[Len(rows)], b, col, descending)
    THEN Append(rows, b)
    ELSE Append(InsertOrdered(SubSeq(rows, 1, Len(rows) - 1), b, col, descending),
                rows[Len(rows)])

\* query.order_by(col.asc() / col.desc()): rows of equal value keep the
\* order the scan gave them
RECURSIVE OrderBy(_, _, _)
OrderBy(rows, col, descending) ==
    IF rows = <<>> THEN <<>>
    ELSE InsertOrdered(OrderBy(SubSeq(rows, 1, Len(rows) - 1), col, descending),
                       rows[Len(rows)], col, descending)

\* the rows as a scan of the table gives them: by primary key
RECURSIVE Scan(_)
Scan(bks) ==
    IF DOMAIN bks = {} THEN <<>>
    ELSE LET m == Max(DOMAIN bks)
         IN  Append(Scan([i \in DOMAIN bks \ {m} |-> bks[i]]), bks[m])

Min2(a, b) == IF a <= b THEN a ELSE b

\* query.paginate(page=, per_page=, error_out=False) for page, per_page >= 1
paginate(rows, page, per_page) ==
    LET total == Len(rows)
        first == (page - 1) * per_page + 1
        last  == Min2(page * per_page, total)
    IN  [items |-> SubSeq(rows, first, last),
         total |-> total,
         pages |-> IF total = 0 THEN 0 ELSE (total + per_page - 1) \div per_page,
         page  |-> page]

\* request.args.get(key, default, type=int): the default when the parameter
\* is absent or is no integer
IntArg(arg, default) ==
    IF arg = None \/ ParseInt(Val(arg)) = None THEN default ELSE Val(ParseInt(Val(arg)))

DefaultPage == 1
DefaultPerPage == 10

\* steps 3 and 4 of get_books: the query, ordered when Book has the name
\* (get_books has answered already when the name is no column)
SortedRows(bks, sort_column, order) ==
    IF hasattr(sort_column)
    THEN OrderBy(Scan(bks), ColumnOf(sort_column), Lower(order) = S_desc)
    ELSE Scan(bks)

\* GET /api/books
get_books(bks, args) ==
    LET sort_column == IF args.sort = None THEN S_id ELSE Val(args.sort)
        order       == IF args.order = None THEN S_asc ELSE Val(args.order)
        page        == IntArg(args.page, DefaultPage)
        per_page    == IntArg(args.per_page, DefaultPerPage)
    IN  IF hasattr(sort_column) /\ ColumnOf(sort_column) = "none"
        THEN \* getattr(Book, sort_column) has no asc() or desc(): AttributeError
             Outcome(ServerError, bks)
        ELSE LET pagination == paginate(SortedRows(bks, sort_column, order), page, per_page)
                 items == pagination.items
             IN  Outcome(Json(200, [success      |-> TRUE,
                                    count        |-> Len(items),
                                    total_books  |-> pagination.total,
                                    total_pages  |-> pagination.pages,
                                    current_page |-> pagination.page,
                                    sort         |-> sort_column,
                                    order        |-> order,
                                    books        |-> [k \in 1..Len(items) |-> to_dict(items[k])]]),
                         bks)

\* the rows of a sequence that pass a test, in order
RECURSIVE Filter(_, _, _)
Filter(rows, key, wanted) ==
    IF rows = <<>> THEN <<>>
    ELSE LET rest == Filter(SubSeq(rows, 1, Len(rows) - 1), key, wanted)
             b == rows[Len(rows)]
             keep == IF key = "year" THEN b.year = Some(wanted) ELSE ilike(b[key], wanted)
         IN  IF keep THEN Append(rest, b) ELSE rest

\* GET /api/books/search
search_books(bks, args) ==
    LET all == Scan(bks)
        byTitle  == IF Truthy(args.q) THEN Filter(all, "title", Val(args.q)) ELSE all
        byAuthor == IF Truthy(args.author)
                    THEN Filter(byTitle, "author", Val(args.author)) ELSE byTitle
    IN  IF Truthy(args.year) /\ ParseInt(Val(args.year)) = None
        THEN \* int(year) raises ValueError
             Outcome(ServerError, bks)
        ELSE LET found == IF Truthy(args.year)
                          THEN Filter(byAuthor, "year", Val(ParseInt(Val(args.year))))
                          ELSE byAuthor
             IN  Outcome(Json(200, [success |-> TRUE,
                                    count   |-> Len(found),
                                    books   |-> [k \in 1..Len(found) |-> to_dict(found[k])]]),
                         bks)

---------------------------------------------------------------------------
(* The requests the model sends *)

Ids == 1..MaxId
\* datetime.utcnow() at a request: after the sample books were inserted
Times == {2}

\* "T", "A", "X", "python", "martin", "abc", "2008", "2", "rating"
S_T == <<84>>
S_A == <<65>>
S_X == <<88>>
S_python == <<112, 121, 116, 104, 111, 110>>
S_martin == <<109, 97, 114, 116, 105, 110>>
S_abc == <<97, 98, 99>>
S_2008 == <<50, 48, 48, 56>>
S_2 == <<50>>
S_rating == <<114, 97, 116, 105, 110, 103>>

\* json object literals: the keys given, each with its value
Key(k, v) == [key |-> k, value |-> v]
Object(pairs) ==
    ObjectBody([k \in {pairs[n].key : n \in 1..Len(pairs)} |->
                   pairs[CHOOSE n \in 1..Len(pairs) : pairs[n].key = k].value])

\* POST bodies: no body, {}, an empty title, the least a book needs, a blank
\* isbn (what the page's form sends), the isbn of the first sample book
CreateBodies ==
    {NullBody,
     Object(<<>>),
     Object(<<Key("title", Some(<<>>)), Key("author", Some(S_A))>>),
     Object(<<Key("title", Some(S_T)), Key("author", Some(S_A))>>),
     Object(<<Key("title", Some(S_T)), Key("author", Some(S_A)), Key("isbn", Some(<<>>))>>),
     Object(<<Key("title", Some(S_T)), Key("author", Some(S_A)),
             Key("year", Some(2008)), Key("isbn", Some(IsbnPython))>>)}

\* PUT bodies: {}, the author alone, an emptied title with the author and a
\* cleared year, the isbn of the first sample book
UpdateBodies ==
    {Object(<<>>),
     Object(<<Key("author", Some(S_X))>>),
     Object(<<Key("title", Some(<<>>)), Key("author", Some(S_X)), Key("year", None)>>),
     Object(<<Key("isbn", Some(IsbnPython))>>)}

\* ?page=2&per_page=2, with and without ?sort=to_dict
ListArgs ==
    [sort : {None, Some(S_to_dict)}, order : {None}, page : {Some(S_2)},
     per_page : {Some(S_2)}]

\* ?q=python, ?author=martin&year=2008, ?year=abc
SearchArgs ==
    {[q |-> Some(S_python), author |-> None, year |-> None],
     [q |-> None, author |-> Some(S_martin), year |-> Some(S_2008)],
     [q |-> None, author |-> None, year |-> Some(S_abc)]}

---------------------------------------------------------------------------
(* The server, one request at a time *)

Procs == {1, 2}

Seed(i, t, a, y, n) ==
    [id |-> i, title |-> Some(t), author |-> Some(a), year |-> Some(y),
     isbn |-> Some(n), created_at |-> Some(1)]

\* init_db on an empty table: the three sample books
SampleBooks ==
    <<Seed(1, TitlePython, AuthorMatthes, 2019, IsbnPython),
      Seed(2, TitleFlask, AuthorGrinberg, 2018, IsbnFlask),
      Seed(3, TitleClean, AuthorMartin, 2008, IsbnClean)>>

\* a worker that holds no request
Idle == [data |-> NullBody, resp |-> [status |-> 0, kind |-> "none", body |-> "none"]]

NoRequest == [route |-> "none"]
NoResponse == [status |-> 0, kind |-> "none", body |-> "none"]

Init ==
    /\ books = SampleBooks
    /\ req = NoRequest
    /\ resp = NoResponse
    /\ pc = [p \in Procs |-> "idle"]
    /\ local = [p \in Procs |-> Idle]

\* the handler has run: its response goes out and its table is the table
Handled(request, out) ==
    /\ req' = request
    /\ resp' = out.resp
    /\ books' = out.books
    /\ UNCHANGED <<pc, local>>

GetBooks ==
    \E args \in ListArgs :
        Handled([route |-> "get_books", args |-> args], get_books(books, args))

GetBook ==
    \E i \in Ids :
        Handled([route |-> "get_book", id |-> i], get_book(books, i))

CreateBook ==
    \E data \in CreateBodies, now \in Times :
        /\ create_check(books, data) = None => NextId(books) <= MaxId
        /\ Handled([route |-> "create_book", data |-> data], create_book(books, data, now))

UpdateBook ==
    \E i \in Ids, data \in UpdateBodies :
        Handled([route |-> "update_book", id |-> i, data |-> data],
                update_book(books, i, data))

DeleteBook ==
    \E i \in Ids :
        Handled([route |-> "delete_book", id |-> i], delete_book(books, i))

SearchBooks ==
    \E args \in SearchArgs :
        Handled([route |-> "search_books", args |-> args], search_books(books, args))

Next ==
    \/ GetBooks
    \/ GetBook
    \/ CreateBook
    \/ UpdateBook
    \/ DeleteBook
    \/ SearchBooks

Spec == Init /\ [][Next]_vars

---------------------------------------------------------------------------
(* get_books on its own: one listing of a table drawn from small rows *)

\* rows of a drawn table
MaxRows == 3
\* pages asked for
MaxPage == 3
\* page sizes asked for
MaxPerPage == 3

\* str(n) for one digit
Digit(n) == <<48 + n>>

\* "a", "B", "ab", "DESC"
S_a == <<97>>
S_B == <<66>>
S_ab == <<97, 98>>
S_DESC == <<68, 69, 83, 67>>

\* the row with key i cut from one of three cloths: the columns differ in
\* which row comes first, two rows tie in author and in created_at, and
\* year and isbn hold a NULL
Cloth(i, n) ==
    CASE n = 1 -> [id |-> i, title |-> Some(S_a), author |-> Some(S_B), year |-> Some(2019),
                   isbn |-> None, created_at |-> Some(1)]
      [] n = 2 -> [id |-> i, title |-> Some(S_B), author |-> Some(S_a), year |-> None,
                   isbn |-> Some(IsbnClean \o Digit(i)), created_at |-> Some(2)]
      [] n = 3 -> [id |-> i, title |-> Some(S_ab), author |-> Some(S_B), year |-> Some(2008),
                   isbn |-> Some(IsbnFlask \o Digit(9 - i)), created_at |-> Some(1)]

DrawnTables ==
    UNION {{[i \in 1..n |-> Cloth(i, pick[i])] : pick \in [1..n -> 1..3]} : n \in 0..MaxRows}

WideListArgs ==
    [sort     : {None} \cup {Some(c) : c \in {S_id, S_title, S_author, S_year, S_isbn,
                                              S_created_at, S_to_dict, S_query, S_rating}},
     order    : {None, Some(S_desc), Some(S_DESC), Some(S_a)},
     page     : {None} \cup {Some(Digit(n)) : n \in 1..MaxPage},
     per_page : {None} \cup {Some(Digit(n)) : n \in 1..MaxPerPage}]

InitList ==
    /\ books \in DrawnTables
    /\ req = NoRequest
    /\ resp = NoResponse
    /\ pc = [p \in Procs |-> "idle"]
    /\ local = [p \in Procs |-> Idle]

ListOnce ==
    /\ req = NoRequest
    /\ \E args \in WideListArgs :
        Handled([route |-> "get_books", args |-> args], get_books(books, args))

NextList == ListOnce

SpecList == InitList /\ [][NextList]_vars

---------------------------------------------------------------------------
(* Two create_book requests served at once, each by its own worker with  *)
(* its own session: the existence check and the commit are two steps.    *)

\* "111"
S_111 == <<49, 49, 49>>

RaceBodies ==
    {Object(<<Key("title", Some(S_T)), Key("author", Some(S_A))>>),
     Object(<<Key("title", Some(S_T)), Key("author", Some(S_A)), Key("isbn", Some(<<>>))>>),
     Object(<<Key("title", Some(S_T)), Key("author", Some(S_A)), Key("isbn", Some(S_111))>>),
     Object(<<Key("title", Some(S_T)), Key("author", Some(S_A)),
              Key("year", Some(2008)), Key("isbn", Some(IsbnPython))>>)}

InitRace == Init

\* request.get_json()
Receive(p) ==
    /\ pc[p] = "idle"
    /\ \E data \in RaceBodies :
        local' = [local EXCEPT ![p].data = data]
    /\ pc' = [pc EXCEPT ![p] = "check"]
    /\ UNCHANGED <<books, req, resp>>

\* the validation and Book.query.filter_by(isbn=...).first()
Check(p) ==
    /\ pc[p] = "check"
    /\ LET failed == create_check(books, local[p].data)
       IN  IF failed # None
           THEN /\ local' = [local EXCEPT ![p].resp = Val(failed)]
                /\ pc' = [pc EXCEPT ![p] = "done"]
           ELSE /\ pc' = [pc EXCEPT ![p] = "commit"]
                /\ UNCHANGED local
    /\ UNCHANGED <<books, req, resp>>

\* db.session.add(new_book); db.session.commit(); the response
CommitStep(p) ==
    /\ pc[p] = "commit"
    /\ \E now \in Times :
        LET out == create_commit(books, local[p].data, now)
        IN  /\ books' = out.books
            /\ local' = [local EXCEPT ![p].resp = out.resp]
    /\ pc' = [pc EXCEPT ![p] = "done"]
    /\ UNCHANGED <<req, resp>>

NextRace ==
    \E p \in Procs :
        \/ Receive(p)
        \/ Check(p)
        \/ CommitStep(p)

SpecRace == InitRace /\ [][NextRace]_vars

---------------------------------------------------------------------------
(* Properties *)

Fields == {"title", "author", "year", "isbn"}

\* C1: in every state reachable from the seeded table by create_book,
\* update_book and delete_book requests, no two persisted Books have the
\* same non-null isbn.
C1_IsbnUnique ==
    \A i, j \in DOMAIN books :
        (i # j /\ books[i].isbn # None) => books[i].isbn # books[j].isbn

\* an update_book asked for an isbn another Book holds, and was refused
C1_Witness ==
    /\ req.route = "update_book"
    /\ req.id \in DOMAIN books
    /\ "isbn" \in DOMAIN req.data.fields
    /\ \E j \in DOMAIN books : j # req.id /\ books[j].isbn = req.data.fields["isbn"]
    /\ books[req.id].isbn # req.data.fields["isbn"]
    /\ resp.status = 500

\* C2: every persisted Book has a non-empty title and a non-empty author;
\* no update_book whose body carries title or author leaves the Book with an
\* empty title or author.
C2_TitleAuthorNonEmpty ==
    \A i \in DOMAIN books : Truthy(books[i].title) /\ Truthy(books[i].author)

\* C3: every create_book whose body gives an isbn that is already the isbn
\* of an existing Book is answered 400 "ISBN already exists" and leaves the
\* set of persisted Books as it was.
C3_DuplicateIsbnRejected ==
    [][(/\ req'.route = "create_book"
        /\ req'.data.kind = "object"
        /\ DictGet(req'.data.fields, "isbn") # None
        /\ \E i \in DOMAIN books : books[i].isbn = req'.data.fields["isbn"])
       => (/\ resp'.status = 400
           /\ resp'.kind = "json"
           /\ resp'.body.success = FALSE
           /\ resp'.body.error = "ISBN already exists"
           /\ books' = books)]_vars

\* C4: a successful update_book on Book id overwrites exactly the fields
\* among title, author, year, isbn that the body carries; every field the
\* body does not carry, and always id and created_at, keeps its value, and
\* every other Book is unchanged.  An update_book that fails changes no Book.
C4_UpdateFrame ==
    [][req'.route = "update_book" =>
        IF resp'.status = 200
        THEN /\ req'.id \in DOMAIN books
             /\ DOMAIN books' = DOMAIN books
             /\ \A k \in Fields :
                   books'[req'.id][k] = IF k \in DOMAIN req'.data.fields
                                        THEN req'.data.fields[k]
                                        ELSE books[req'.id][k]
             /\ books'[req'.id].id = books[req'.id].id
             /\ books'[req'.id].created_at = books[req'.id].created_at
             /\ \A j \in DOMAIN books \ {req'.id} : books'[j] = books[j]
        ELSE /\ resp'.status \in {400, 404, 500}
             /\ books' = books]_vars

\* the author alone was sent for the first sample book: the author is the
\* new one, and title, year and isbn are the sample's
C4_Witness ==
    /\ req.route = "update_book"
    /\ req.id = 1
    /\ resp.status = 200
    /\ DOMAIN req.data.fields = {"author"}
    /\ books[1].author = Some(S_X)
    /\ books[1].title = Some(TitlePython)
    /\ books[1].year = Some(2019)
    /\ books[1].isbn = Some(IsbnPython)
    /\ books[1].created_at = Some(1)

\* C5: a delete_book on an existing id answers 200 and removes that Book and
\* no other; a get_book for the same id right after it answers 404 with
\* success=false; a delete_book on an id with no Book answers 404 and
\* removes nothing.
C5_DeleteThenGet ==
    [][/\ req'.route = "delete_book" =>
            IF req'.id \in DOMAIN books
            THEN /\ resp'.status = 200
                 /\ DOMAIN books' = DOMAIN books \ {req'.id}
                 /\ \A j \in DOMAIN books' : books'[j] = books[j]
            ELSE /\ resp'.status = 404
                 /\ resp'.body.success = FALSE
                 /\ books' = books
       /\ (/\ req.route = "delete_book"
           /\ resp.status = 200
           /\ req'.route = "get_book"
           /\ req'.id = req.id)
          => (resp'.status = 404 /\ resp'.body.success = FALSE)]_vars

\* a get_book for the key of a sample book finds no Book: it was deleted
C5_Witness ==
    /\ req.route = "get_book"
    /\ req.id \in DOMAIN SampleBooks
    /\ req.id \notin DOMAIN books
    /\ resp.status = 404
    /\ resp.body.success = FALSE

\* the number a page or per_page parameter was written from
Asked(arg, default, most) ==
    IF arg = None THEN default ELSE CHOOSE n \in 1..most : Digit(n) = Val(arg)

\* ceil(n / d)
Ceil(n, d) == CHOOSE k \in 0..n : k * d >= n /\ (k = 0 \/ (k - 1) * d < n)

\* C6: for a table of N Books and positive page and per_page, get_books
\* answers 200 with success=true, total_books = N, total_pages =
\* ceil(N / per_page), current_page = page and count = the number of books
\* returned = min(per_page, max(0, N - (page-1)*per_page)); a page past the
\* last one is an empty list, not a failure.
C6_Pagination ==
    req.route = "get_books" =>
        LET N == Cardinality(DOMAIN books)
            page == Asked(req.args.page, 1, MaxPage)
            per_page == Asked(req.args.per_page, 10, MaxPerPage)
            rest == N - (page - 1) * per_page
        IN  /\ resp.status = 200
            /\ resp.kind = "json"
            /\ resp.body.success = TRUE
            /\ resp.body.total_books = N
            /\ resp.body.total_pages = Ceil(N, per_page)
            /\ resp.body.current_page = page
            /\ resp.body.count = Len(resp.body.books)
            /\ resp.body.count = Min2(per_page, IF rest > 0 THEN rest ELSE 0)

FieldNames == {S_id, S_title, S_author, S_year, S_isbn, S_created_at}

\* the order of two values of a field as the response shows them
ShownLeq(a, b, col) ==
    IF col = "id" THEN a <= b
    ELSE IF a = None THEN TRUE
    ELSE IF b = None THEN FALSE
    ELSE IF col = "year" THEN Val(a) <= Val(b)
    ELSE TextLeq(Val(a), Val(b))

\* C7: for a sort parameter that is not the name of a Book field get_books
\* skips sorting and answers 200 with success=true; for one that names a
\* field the books returned are non-decreasing in it with order=asc and
\* non-increasing with order=desc.
C7_SortSkippedOrOrdered ==
    req.route = "get_books" =>
        LET sort == IF req.args.sort = None THEN S_id ELSE Val(req.args.sort)
            col  == ColumnOf(sort)
            shown == resp.body.books
        IN  /\ resp.status = 200
            /\ resp.kind = "json"
            /\ resp.body.success = TRUE
            /\ (sort \in FieldNames /\ req.args.order = None) =>
                  \A k \in 1..(Len(shown) - 1) : ShownLeq(shown[k][col], shown[k + 1][col], col)
            /\ (sort \in FieldNames /\ req.args.order = Some(S_desc)) =>
                  \A k \in 1..(Len(shown) - 1) : ShownLeq(shown[k + 1][col], shown[k][col], col)

\* the create_book requests C8 is about
Creatable(bks, data) ==
    /\ data.kind = "object"
    /\ Truthy(DictGet(data.fields, "title"))
    /\ Truthy(DictGet(data.fields, "author"))
    /\ \/ DictGet(data.fields, "isbn") = None
       \/ \A i \in DOMAIN bks : bks[i].isbn # data.fields["isbn"]

\* C8: a create_book with non-empty title and author and an isbn that is
\* absent or used by no existing Book answers 201 and adds exactly one Book,
\* under an id no other persisted Book holds; a get_book on the returned id
\* right after it returns the title, author, year and isbn given.
C8_CreateRoundTrip ==
    [][/\ (req'.route = "create_book" /\ Creatable(books, req'.data)) =>
            /\ resp'.status = 201
            /\ resp'.body.success = TRUE
            /\ resp'.body.book.id \notin DOMAIN books
            /\ DOMAIN books' = DOMAIN books \cup {resp'.body.book.id}
            /\ \A j \in DOMAIN books : books'[j] = books[j]
       /\ (/\ req.route = "create_book"
           /\ resp.status = 201
           /\ req'.route = "get_book"
           /\ req'.id = resp.body.book.id)
          => /\ resp'.status = 200
             /\ resp'.body.success = TRUE
             /\ \A k \in Fields : resp'.body.book[k] = DictGet(req.data.fields, k)]_vars

\* a get_book returns a Book that a create_book made, blank isbn and all
C8_Witness ==
    /\ req.route = "get_book"
    /\ resp.status = 200
    /\ resp.body.book.title = Some(S_T)
    /\ resp.body.book.author = Some(S_A)
    /\ resp.body.book.isbn = Some(<<>>)
    /\ resp.body.book.id = req.id

\* the statuses the interface table lists for a route
Listed(route) ==
    CASE route = "get_books" -> {200}
      [] route = "search_books" -> {200}
      [] route = "get_book" -> {200, 404}
      [] route = "create_book" -> {201, 400}
      [] route = "update_book" -> {200, 404, 400}
      [] route = "delete_book" -> {200, 404}

\* C9: every response to an API route carries a success boolean and a
\* status the interface table lists for the route; every failure has
\* success=false and an error message and leaves the Books unchanged.
C9_ListedStatuses ==
    [][req'.route # "none" =>
        /\ resp'.kind = "json"
        /\ resp'.body.success \in BOOLEAN
        /\ resp'.status \in Listed(req'.route)
        /\ resp'.status >= 400 =>
              /\ resp'.body.success = FALSE
              /\ "error" \in DOMAIN resp'.body
              /\ books' = books]_vars

\* C10: when two create_book requests with the same non-empty isbn both run
\* the existence check before either commits, at most one persists a Book:
\* no two Books share the isbn and at most one request is answered 201.
C10_RaceOneWinner ==
    /\ \A i, j \in DOMAIN books :
          (i # j /\ Truthy(books[i].isbn)) => books[i].isbn # books[j].isbn
    /\ \A p, q \in Procs :
          (/\ p # q
           /\ pc[p] # "idle" /\ pc[q] # "idle"
           /\ Truthy(DictGet(local[p].data.fields, "isbn"))
           /\ DictGet(local[p].data.fields, "isbn") = DictGet(local[q].data.fields, "isbn")
           /\ local[p].resp.status = 201)
          => local[q].resp.status # 201

\* both requests passed the check (neither was answered 400) with the same
\* new isbn; one was answered 201 and the other lost at its commit
C10_Witness ==
    /\ pc[1] = "done" /\ pc[2] = "done"
    /\ DictGet(local[1].data.fields, "isbn") = Some(S_111)
    /\ DictGet(local[2].data.fields, "isbn") = Some(S_111)
    /\ local[1].resp.status = 500
    /\ local[2].resp.status = 201
    /\ Cardinality({i \in DOMAIN books : books[i].isbn = Some(S_111)}) = 1

=============================================================================
